---- MODULE Spec2Model ----
(***************************************************************************)
(* Model of xor/xor_tutorial.ipynb: the notebook's code cells, executed    *)
(* top to bottom in one Python kernel, and the functions the cells define, *)
(* called with arguments drawn from small sets.                            *)
(*                                                                         *)
(* Real numbers are fixed-point integers in thousandths (0.5 is 500).      *)
(* A name that no cell binds raises NameError when it is read, as in       *)
(* Python; the kernel's namespace is the variable env.                     *)
(***************************************************************************)
EXTENDS Integers, Sequences, FiniteSets, TLC

VARIABLES cell, env, cellError, call, epoch, losses, out, trace, heap

vars == <<cell, env, cellError, call, epoch, losses, out, trace, heap>>

(* ---------------------------- bounds ----------------------------------- *)
MaxLen == 4
MaxBatch == 5
MaxEpochs == 12

(* ---------------------------- inputs ----------------------------------- *)
\* datasets of 0..MaxLen rows of bit pairs with their labels
Xor(a, b) == (a + b) % 2
\* rows 1..4 are the rows of generate_data, repeated after that
Row(i) == CASE i % 4 = 1 -> <<1, 0>> [] i % 4 = 2 -> <<0, 1>>
            [] i % 4 = 3 -> <<0, 0>> [] OTHER -> <<1, 1>>
DataX(n) == [i \in 1..n |-> Row(i)]
DataY(n) == [i \in 1..n |-> <<Xor(Row(i)[1], Row(i)[2])>>]
Weights == {[l \in 1..2 |-> 1000], [l \in 1..2 |-> IF l = 1 THEN -1000 ELSE 1000]}
Biases == {[l \in 1..2 |-> 0], [l \in 1..2 |-> 500]}
\* learning rates in thousandths; 1 is train's default 1e-3
Rates == {1, 100}
SigmoidInputs == -2..2
Probabilities == {250, 500, 750}
\* 4 is train's default batch size
BatchSizes == {1, 4}

(* ---------------------------- kernel ----------------------------------- *)
None == "None"
NoArgs == [none |-> TRUE]
NoCall == [fn |-> "none", args |-> NoArgs, status |-> "none", ret |-> None]
Bound(name) == name \in DOMAIN env
Bind(e, names, v) == [n \in (DOMAIN e) \cup names |-> IF n \in names THEN v ELSE e[n]]
Idle == call.status # "running"

\* the code cells of the notebook, in order: the names a cell binds
NCells == 19
CellBinds(c) ==
    CASE c = 1 -> {"mplot3d", "np", "plt"}
      [] c = 3 -> {"generate_data"}
      [] c = 4 -> {"get_parameters"}
      [] c = 5 -> {"print_shapes"}
      [] c = 6 -> {"sigmoid"}
      [] c = 7 -> {"binary_xentropy"}
      [] c = 8 -> {"shuffle_and_batch"}
      [] c = 9 -> {"feedforward"}
      [] c = 10 -> {"backprop"}
      [] c = 11 -> {"SGD"}
      [] c = 12 -> {"train"}
      [] c = 13 -> {"predict"}
      [] c = 14 -> {"plot_loss"}
      [] c = 17 -> {"plot_activation_surface"}
      [] OTHER -> {}
\* the names a cell reads at top level, in evaluation order
CellReads(c) ==
    CASE c = 2 -> <<"np">>
      [] c = 18 -> <<"plot_activation_surface", "weights", "biases">>
      [] c = 19 -> <<"plot_activation_surface", "weights", "biases">>
      [] OTHER -> <<>>
PlotCells == {18, 19}

(* ---------------------------- functions -------------------------------- *)
generate_data_mislabelled ==
    <<  <<  <<1, 0>>, <<0, 1>>, <<0, 0>>, <<1, 1>>  >>,
        <<  <<1>>, <<1>>, <<0>>, <<1>>  >>  >>

generate_data ==
    <<  <<  <<1, 0>>, <<0, 1>>, <<0, 0>>, <<1, 1>>  >>,
        <<  <<1>>, <<1>>, <<0>>, <<0>>  >>  >>

\* return w, b : w and b are read from the kernel's namespace
get_parameters ==
    IF Bound("w") /\ Bound("b")
    THEN [status |-> "returned", ret |-> <<env["w"], env["b"]>>]
    ELSE [status |-> "NameError", ret |-> None]

\* np.exp on the integers -4..4, in thousandths
ExpMilli(x) ==
    CASE x = -4 -> 18 [] x = -3 -> 50 [] x = -2 -> 135 [] x = -1 -> 368
      [] x = 0 -> 1000
      [] x = 1 -> 2718 [] x = 2 -> 7389 [] x = 3 -> 20086 [] x = 4 -> 54598
\* np.log on the probabilities, in thousandths
LogMilli(p) ==
    CASE p = 250 -> -1386 [] p = 500 -> -693 [] p = 750 -> -288

\* return 1 / (1 + np.exp(-x)) : deriv is not read
sigmoid(x, deriv) == (1000 * 1000) \div (1000 + ExpMilli(-x))

\* return -(target * np.log(p) + (1 - target) * np.log(1 - p)) : deriv is not read
binary_xentropy(target, p, deriv) ==
    -(target * LogMilli(p) + (1 - target) * LogMilli(1000 - p))

shuffle_and_batch_strict(X, Y, batch_size) ==
    IF batch_size < Len(X)
    THEN [status |-> "returned", ret |-> None, out |-> <<>>]
    ELSE [status |-> "AssertionError", ret |-> None,
          out |-> <<"Batch size must be smaller than the dataset size">>]

\* assert batch_size <= len(X), print(...) ; then the body ends: returns None
shuffle_and_batch(X, Y, batch_size) ==
    IF batch_size <= Len(X)
    THEN [status |-> "returned", ret |-> None, out |-> <<>>]
    ELSE [status |-> "AssertionError", ret |-> None,
          out |-> <<"Batch size must be smaller than the dataset size">>]

\* return zs, activations, d_activations : read from the kernel's namespace
feedforward(x, weights, biases) ==
    IF Bound("zs") /\ Bound("activations") /\ Bound("d_activations")
    THEN [status |-> "returned",
          ret |-> <<env["zs"], env["activations"], env["d_activations"]>>]
    ELSE [status |-> "NameError", ret |-> None]

\* return gradw, gradb : read from the kernel's namespace
backprop(x, y, weights, biases) ==
    IF Bound("gradw") /\ Bound("gradb")
    THEN [status |-> "returned", ret |-> <<env["gradw"], env["gradb"]>>]
    ELSE [status |-> "NameError", ret |-> None]

\* zip(a, b): pairs up to the shorter length
Min(a, b) == IF a <= b THEN a ELSE b
Zip(a, b) == [i \in 1..Min(Len(a), Len(b)) |-> <<a[i], b[i]>>]
Last(s) == s[Len(s)]

\* predict: feedforward, two header lines, one line per zipped row
predict(X, weights, biases) ==
    LET ff == feedforward(X, weights, biases) IN
    IF ff.status # "returned"
    THEN [status |-> ff.status, ret |-> None, out |-> <<>>]
    ELSE [status |-> "returned", ret |-> None,
          out |-> <<"Truth table predictions", "_______________________">>
                  \o [i \in 1..Len(Zip(X, Last(ff.ret[2]))) |->
                        <<X[i][1], X[i][2], Last(ff.ret[2])[i][1]>>]]

(* ---------------------------- state ------------------------------------ *)
Init ==
    /\ cell = 1
    /\ env = [n \in {} |-> "function"]
    /\ cellError = "none"
    /\ call = NoCall
    /\ epoch = 0
    /\ losses = <<>>
    /\ out = <<>>
    /\ trace = <<>>
    /\ heap = [weights |-> [l \in 1..2 |-> 1000], biases |-> [l \in 1..2 |-> 0],
               X |-> generate_data[1], Y |-> generate_data[2]]

\* the kernel executes the next code cell
RunCell ==
    /\ Idle
    /\ cell <= NCells
    /\ LET reads == CellReads(cell)
           missing == {i \in 1..Len(reads) : ~Bound(reads[i])}
       IN  IF missing = {}
           THEN /\ env' = Bind(env, CellBinds(cell), "function")
                /\ cellError' = "none"
           ELSE /\ env' = env
                /\ cellError' = "NameError"
    /\ cell' = cell + 1
    /\ UNCHANGED <<call, epoch, losses, out, trace, heap>>

Finish(fn, args, r, printed, calls) ==
    /\ call' = [fn |-> fn, args |-> args, status |-> r.status, ret |-> r.ret]
    /\ out' = printed
    /\ trace' = calls
    /\ UNCHANGED <<cell, env, cellError, epoch, losses>>

CallGenerateData ==
    /\ Idle /\ Bound("generate_data")
    /\ Finish("generate_data", NoArgs,
              [status |-> "returned", ret |-> generate_data], <<>>, <<"generate_data">>)
    /\ UNCHANGED heap

CallGetParameters ==
    /\ Idle /\ Bound("get_parameters")
    /\ Finish("get_parameters", NoArgs, get_parameters, <<>>, <<"get_parameters">>)
    /\ UNCHANGED heap

CallSigmoid ==
    /\ Idle /\ Bound("sigmoid")
    /\ \E x \in SigmoidInputs, deriv \in BOOLEAN :
         Finish("sigmoid", [x |-> x, deriv |-> deriv],
                [status |-> "returned", ret |-> sigmoid(x, deriv)], <<>>, <<"sigmoid">>)
    /\ UNCHANGED heap

CallBinaryXentropy ==
    /\ Idle /\ Bound("binary_xentropy")
    /\ \E target \in {0, 1}, p \in Probabilities, deriv \in BOOLEAN :
         Finish("binary_xentropy", [target |-> target, p |-> p, deriv |-> deriv],
                [status |-> "returned", ret |-> binary_xentropy(target, p, deriv)],
                <<>>, <<"binary_xentropy">>)
    /\ UNCHANGED heap

CallShuffleAndBatch ==
    /\ Idle /\ Bound("shuffle_and_batch")
    /\ \E n \in 0..MaxLen, batch_size \in 0..MaxBatch :
         LET r == shuffle_and_batch(DataX(n), DataY(n), batch_size) IN
         /\ Finish("shuffle_and_batch", [n |-> n, batch_size |-> batch_size],
                   r, r.out, <<"shuffle_and_batch">>)
         /\ heap' = [heap EXCEPT !.X = DataX(n), !.Y = DataY(n)]

CallFeedforward ==
    /\ Idle /\ Bound("feedforward")
    /\ \E n \in 0..MaxLen, w \in Weights, b \in Biases :
         /\ Finish("feedforward", [n |-> n, weights |-> w, biases |-> b],
                   feedforward(DataX(n), w, b), <<>>, <<"feedforward">>)
         /\ heap' = [weights |-> w, biases |-> b, X |-> DataX(n), Y |-> DataY(n)]

CallBackprop ==
    /\ Idle /\ Bound("backprop")
    /\ \E n \in 0..MaxLen, w \in Weights, b \in Biases :
         /\ Finish("backprop", [n |-> n, weights |-> w, biases |-> b],
                   backprop(DataX(n), DataY(n), w, b), <<>>, <<"backprop">>)
         /\ heap' = [weights |-> w, biases |-> b, X |-> DataX(n), Y |-> DataY(n)]

\* SGD: the body is the docstring; nothing is read or written, None is returned
CallSGD ==
    /\ Idle /\ Bound("SGD")
    /\ \E n \in 0..MaxLen, batch_size \in BatchSizes, lr \in Rates,
          w \in Weights, b \in Biases :
         /\ Finish("SGD", [n |-> n, batch_size |-> batch_size, lr |-> lr,
                           weights |-> w, biases |-> b],
                   [status |-> "returned", ret |-> None], <<>>, <<"SGD">>)
         /\ heap' = [weights |-> w, biases |-> b, X |-> DataX(n), Y |-> DataY(n)]

CallPredict ==
    /\ Idle /\ Bound("predict")
    /\ \E n \in 0..MaxLen, w \in Weights, b \in Biases :
         LET r == predict(DataX(n), w, b) IN
         /\ Finish("predict", [n |-> n, weights |-> w, biases |-> b],
                   r, r.out, <<"predict", "feedforward">>)
         /\ heap' = [weights |-> w, biases |-> b, X |-> DataX(n), Y |-> DataY(n)]

\* train is entered: losses = [] and the loop starts at epoch 0
TrainCall ==
    /\ Idle /\ Bound("train")
    /\ \E epochs \in 0..MaxEpochs, lr \in Rates, batch_size \in BatchSizes,
          w \in Weights, b \in Biases :
         /\ call' = [fn |-> "train",
                     args |-> [epochs |-> epochs, lr |-> lr, batch_size |-> batch_size,
                               weights |-> w, biases |-> b],
                     status |-> "running", ret |-> None]
         /\ heap' = [weights |-> w, biases |-> b,
                     X |-> generate_data[1], Y |-> generate_data[2]]
    /\ epoch' = 0
    /\ losses' = <<>>
    /\ out' = <<>>
    /\ trace' = <<"train">>
    /\ UNCHANGED <<cell, env, cellError>>

\* one iteration of the loop: the body is the progress report
TrainStep ==
    /\ call.fn = "train" /\ call.status = "running"
    /\ epoch < call.args.epochs
    /\ LET d == call.args.epochs \div 10 IN
       IF d = 0
       THEN /\ call' = [call EXCEPT !.status = "ZeroDivisionError"]
            /\ UNCHANGED <<epoch, out>>
       ELSE IF epoch % d = 0
            THEN IF Bound("epoch_loss")
                 THEN /\ out' = Append(out, <<epoch, env["epoch_loss"]>>)
                      /\ epoch' = epoch + 1
                      /\ UNCHANGED call
                 ELSE /\ call' = [call EXCEPT !.status = "NameError"]
                      /\ UNCHANGED <<epoch, out>>
            ELSE /\ epoch' = epoch + 1
                 /\ UNCHANGED <<call, out>>
    /\ UNCHANGED <<cell, env, cellError, losses, trace, heap>>

\* the loop is exhausted: return losses
TrainReturn ==
    /\ call.fn = "train" /\ call.status = "running"
    /\ epoch >= call.args.epochs
    /\ call' = [call EXCEPT !.status = "returned", !.ret = losses]
    /\ UNCHANGED <<cell, env, cellError, epoch, losses, out, trace, heap>>

Next ==
    \/ RunCell
    \/ CallGenerateData
    \/ CallGetParameters
    \/ CallSigmoid
    \/ CallBinaryXentropy
    \/ CallShuffleAndBatch
    \/ CallFeedforward
    \/ CallBackprop
    \/ CallSGD
    \/ CallPredict
    \/ TrainCall
    \/ TrainStep
    \/ TrainReturn

Spec == Init /\ [][Next]_vars

(* ---------------------------- properties ------------------------------- *)
Returned(fn) == call.fn = fn /\ call.status = "returned"
Ended(fn) == call.fn = fn /\ call.status # "running"
Range(s) == {s[i] : i \in 1..Len(s)}

C2_XorTruthTable ==
    call.fn = "generate_data" =>
        /\ call.status = "returned"
        /\ LET bitpairs == call.ret[1]
               xor_labels == call.ret[2]
           IN  /\ Len(bitpairs) = 4
               /\ Len(xor_labels) = 4
               /\ \A a \in {0, 1}, b \in {0, 1} :
                    Cardinality({i \in 1..4 : bitpairs[i] = <<a, b>>}) = 1
               /\ \A i \in 1..4 :
                    xor_labels[i] = <<Xor(bitpairs[i][1], bitpairs[i][2])>>

C2_Witness ==
    /\ Returned("generate_data")
    /\ call.ret[1][4] = <<1, 1>>
    /\ call.ret[2][4] = <<0>>

\* C3: the stages of a run are ordered: the plot stage is entered only after
\* the parameters have been initialised (and the network trained), so when a
\* plot cell has been executed, weights and biases are bound.
C3_PlotAfterInitialization ==
    \A c \in PlotCells : cell > c => Bound("weights") /\ Bound("biases")

\* C4: every SGD step over a mini-batch changes the weight and bias objects
\* that were passed in.
C4_SGDStepChangesParameters ==
    (Returned("SGD") /\ call.args.batch_size <= Len(heap.X)) =>
        \/ heap.weights # call.args.weights
        \/ heap.biases # call.args.biases

C7_DerivFlagSelectsDerivative ==
    /\ (Returned("sigmoid") /\ call.args.deriv) =>
          call.ret # sigmoid(call.args.x, FALSE)
    /\ (Returned("binary_xentropy") /\ call.args.deriv) =>
          call.ret # binary_xentropy(call.args.target, call.args.p, FALSE)

\* C8: a train call over epochs >= 1 returns a list of exactly one loss per
\* epoch: len(losses) = epochs.
C8_OneLossPerEpoch ==
    (Ended("train") /\ call.args.epochs >= 1) =>
        /\ call.status = "returned"
        /\ Len(call.ret) = call.args.epochs

\* C9: for every epochs >= 1, 1 <= epochs <= 9 included, the progress test
\* epoch % (epochs // 10) == 0 is evaluated without error.
C9_ProgressTestNeverFails ==
    (call.fn = "train" /\ call.args.epochs >= 1) =>
        call.status # "ZeroDivisionError"

\* C10: predict leaves weights, biases and the dataset unchanged and prints,
\* after its two header lines, one row per dataset row, in dataset order.
C10_PredictReadsOnly ==
    Ended("predict") =>
        /\ heap.weights = call.args.weights
        /\ heap.biases = call.args.biases
        /\ heap.X = DataX(call.args.n)
        /\ call.status = "returned"
        /\ Len(out) = 2 + Len(heap.X)
        /\ \A i \in 1..Len(heap.X) :
             out[2 + i][1] = heap.X[i][1] /\ out[2 + i][2] = heap.X[i][2]

====
